---- MODULE Spec2Model ----
(***************************************************************************)
(* Model of the pitch tracker of Muzic-Rocks:                              *)
(*   src/src/audio/pitch-detector.js, class PitchDetector                  *)
(*     constructor, autoCorrelate, detectPitch, reset, setSensitivity.     *)
(*                                                                         *)
(* autoCorrelate is a pure function of the buffer and the sample rate; it  *)
(* is an operator, and detectPitch takes the estimate it returns.          *)
(*                                                                         *)
(* JavaScript numbers are modelled as exact rationals extended with the    *)
(* IEEE special values NaN, +Infinity and -Infinity; comparisons and       *)
(* arithmetic follow the JavaScript rules for those values (a comparison   *)
(* with NaN is false, arithmetic with NaN is NaN).  Rounding of finite     *)
(* results is not modelled.                                                *)
(***************************************************************************)
EXTENDS Integers, Sequences, FiniteSets, TLC

(***************************************************************************)
(* Bounds of the model.                                                    *)
(***************************************************************************)
\* largest historySize a caller passes to setSensitivity
MaxHistorySize == 3
\* largest number of estimates appended between two clearings of the history
MaxStreak == 4
\* largest length of a sample buffer handed to autoCorrelate
MaxBufferLen == 4
\* largest number of start() calls of the component that request the microphone
MaxStarts == 3
\* largest number of clock ticks (of TickMillis each) after the page load
MaxTicks == 4
\* playNote calls of the note player in a behaviour
MaxPlays == 3
\* seconds the note player's clock advances in a behaviour
MaxSeconds == 5
\* detectHeadphones calls in a behaviour
MaxDetections == 2
\* entries of the list enumerateDevices resolves with
MaxDevices == 2
\* samples in a buffer holding a sine wave
SineLength == 48

(***************************************************************************)
(* JavaScript values.                                                      *)
(***************************************************************************)
RECURSIVE Gcd(_, _)
Gcd(a, b) == IF b = 0 THEN a ELSE Gcd(b, a % b)

AbsInt(n) == IF n < 0 THEN -n ELSE n

\* the rational n/d (d > 0) in lowest terms
Rat(n, d) ==
    LET g == Gcd(AbsInt(n), d)
    IN  [k |-> "num", n |-> n \div g, d |-> d \div g]

Num(n) == [k |-> "num", n |-> n, d |-> 1]
NaN == [k |-> "nan", n |-> 0, d |-> 1]
PosInf == [k |-> "inf", n |-> 1, d |-> 1]
NegInf == [k |-> "inf", n |-> -1, d |-> 1]
Null == [k |-> "null", n |-> 0, d |-> 1]
Undefined == [k |-> "undefined", n |-> 0, d |-> 1]

IsFinite(x) == x.k = "num"

\* x < y on JavaScript numbers
JsLt(x, y) ==
    IF x.k = "nan" \/ y.k = "nan" THEN FALSE
    ELSE IF x.k = "inf" /\ y.k = "inf" THEN x.n < y.n
    ELSE IF x.k = "inf" THEN x.n < 0
    ELSE IF y.k = "inf" THEN y.n > 0
    ELSE x.n * y.d < y.n * x.d

\* x > y on JavaScript numbers
JsGt(x, y) == JsLt(y, x)

\* x + y on JavaScript numbers
JsAdd(x, y) ==
    IF x.k = "nan" \/ y.k = "nan" THEN NaN
    ELSE IF x.k = "inf" /\ y.k = "inf" THEN (IF x.n = y.n THEN x ELSE NaN)
    ELSE IF x.k = "inf" THEN x
    ELSE IF y.k = "inf" THEN y
    ELSE Rat(x.n * y.d + y.n * x.d, x.d * y.d)

\* -x on JavaScript numbers
JsNeg(x) == IF x.k = "nan" THEN NaN ELSE [x EXCEPT !.n = -x.n]

\* x - y on JavaScript numbers
JsSub(x, y) == JsAdd(x, JsNeg(y))

\* Math.abs(x)
JsAbs(x) == IF x.k = "nan" THEN NaN ELSE [x EXCEPT !.n = AbsInt(x.n)]

\* x / n for a positive integer n
JsDivInt(x, n) ==
    IF x.k = "num" THEN Rat(x.n, x.d * n) ELSE x

\* the sign of an integer
Sign(n) == IF n < 0 THEN -1 ELSE IF n = 0 THEN 0 ELSE 1

\* x * y on JavaScript numbers
JsMul(x, y) ==
    IF x.k = "nan" \/ y.k = "nan" THEN NaN
    ELSE IF x.k = "inf" \/ y.k = "inf"
         THEN IF x.n = 0 \/ y.n = 0 THEN NaN
              ELSE [k |-> "inf", n |-> Sign(x.n) * Sign(y.n), d |-> 1]
    ELSE Rat(x.n * y.n, x.d * y.d)

\* x / y on JavaScript numbers; a zero divisor is +0 (every zero divisor of
\* the program is the integer 0 or a difference of equal numbers)
JsDiv(x, y) ==
    IF x.k = "nan" \/ y.k = "nan" THEN NaN
    ELSE IF x.k = "inf"
         THEN IF y.k = "inf" THEN NaN
              ELSE [k |-> "inf",
                    n |-> IF y.n < 0 THEN -x.n ELSE x.n, d |-> 1]
    ELSE IF y.k = "inf" THEN Num(0)
    ELSE IF y.n = 0
         THEN IF x.n = 0 THEN NaN
              ELSE [k |-> "inf", n |-> Sign(x.n), d |-> 1]
    ELSE Rat(Sign(y.n) * x.n * y.d, x.d * AbsInt(y.n))

\* if (x) on a JavaScript number: false for 0 and NaN
Truthy(x) == x.k = "inf" \/ (x.k = "num" /\ x.n # 0)

\* q[i] of a zero-based array used as a number: undefined (an index outside
\* the array) converts to NaN
At(q, i) == IF i >= 0 /\ i < Len(q) THEN q[i + 1] ELSE NaN

(***************************************************************************)
(* Program constants.                                                      *)
(***************************************************************************)
\* constructor: this.historySize = 3
DefaultHistorySize == 3
\* constructor: this.pitchTolerance = 15
DefaultPitchTolerance == 15
\* detectPitch: frequency < 60
MinFrequency == 60
\* detectPitch: frequency > 1000
MaxFrequency == 1000

(***************************************************************************)
(* autoCorrelate, lines 22-99.                                             *)
(***************************************************************************)
\* line 34: rms below 0.01, as a bound on the mean square
RmsThresholdSquaredInverse == 10000

\* line 39: thres = 0.2, as 1 / 5
ThresInverse == 5

\* lines 24-30: the sum of val * val over a range of the buffer
\* (the sums are exact, so the order of the additions is immaterial: the
\* range is halved to keep the evaluation shallow on long buffers)
RECURSIVE squaresBetween(_, _, _)
squaresBetween(buffer, from, to) ==
    IF to <= from THEN Num(0)
    ELSE IF to = from + 1 THEN JsMul(At(buffer, from), At(buffer, from))
    ELSE LET mid == (from + to) \div 2
         IN  JsAdd(squaresBetween(buffer, from, mid),
                   squaresBetween(buffer, mid, to))

\* lines 24-30: the sum of val * val over the buffer
sumOfSquares(buffer) == squaresBetween(buffer, 0, Len(buffer))

\* variant of tooQuiet: the sum of squares is not divided by SIZE
tooQuietTotal(buffer) ==
    LET total == sumOfSquares(buffer)
    IN  /\ total.k = "num"
        /\ total.n * RmsThresholdSquaredInverse < total.d

\* lines 31-34: Math.sqrt(rms / SIZE) < 0.01; the mean square is never
\* negative, so the root is below 0.01 when the mean square is below 0.0001
tooQuiet(buffer) ==
    LET meanSquare == JsDiv(sumOfSquares(buffer), Num(Len(buffer)))
    IN  /\ meanSquare.k = "num"
        /\ meanSquare.n * RmsThresholdSquaredInverse < meanSquare.d

\* lines 43 and 51: Math.abs(buffer[i]) < thres
belowThres(x) == JsLt(JsAbs(x), Rat(1, ThresInverse))

\* lines 42-47: r1, the first index i < SIZE / 2 below the threshold, else 0
trimStart(buffer) ==
    LET SIZE == Len(buffer)
        hits == { i \in 0..(SIZE - 1) : 2 * i < SIZE /\ belowThres(At(buffer, i)) }
    IN  IF hits = {} THEN 0
        ELSE CHOOSE i \in hits : \A j \in hits : i <= j

\* variant of trimEnd: the scan from the end runs over the whole buffer
trimEndWholeBuffer(buffer) ==
    LET SIZE == Len(buffer)
        hits == { i \in 1..SIZE : belowThres(At(buffer, SIZE - i)) }
    IN  IF hits = {} THEN SIZE - 1
        ELSE SIZE - (CHOOSE i \in hits : \A j \in hits : i <= j)

\* lines 38 and 50-55: r2, SIZE - i for the first i in 1 .. < SIZE / 2 with
\* buffer[SIZE - i] below the threshold, else SIZE - 1
trimEnd(buffer) ==
    LET SIZE == Len(buffer)
        hits == { i \in 1..SIZE : 2 * i < SIZE /\ belowThres(At(buffer, SIZE - i)) }
    IN  IF hits = {} THEN SIZE - 1
        ELSE SIZE - (CHOOSE i \in hits : \A j \in hits : i <= j)

\* line 58: buffer.slice(r1, r2), a negative r2 counting from the end
slice(buffer, r1, r2) ==
    LET SIZE == Len(buffer)
        from == IF r1 < 0 THEN (IF SIZE + r1 < 0 THEN 0 ELSE SIZE + r1)
                ELSE (IF r1 > SIZE THEN SIZE ELSE r1)
        to == IF r2 < 0 THEN (IF SIZE + r2 < 0 THEN 0 ELSE SIZE + r2)
              ELSE (IF r2 > SIZE THEN SIZE ELSE r2)
    IN  SubSeq(buffer, from + 1, to)

\* lines 64-66: the sum of buffer[j] * buffer[j + i] for from <= j < to
RECURSIVE productsBetween(_, _, _, _)
productsBetween(buffer, i, from, to) ==
    IF to <= from THEN Num(0)
    ELSE IF to = from + 1 THEN JsMul(At(buffer, from), At(buffer, from + i))
    ELSE LET mid == (from + to) \div 2
         IN  JsAdd(productsBetween(buffer, i, from, mid),
                   productsBetween(buffer, i, mid, to))

\* lines 64-66: c[i], the sum of buffer[j] * buffer[j + i] for j < n
lagSum(buffer, i, n) == productsBetween(buffer, i, 0, n)

\* lines 62-67: the autocorrelation array c
correlation(buffer) ==
    [ k \in 1..Len(buffer) |-> lagSum(buffer, k - 1, Len(buffer) - (k - 1)) ]

\* variant of skipSlope: the skip also passes equal neighbours
RECURSIVE skipSlopeOrEqual(_, _)
skipSlopeOrEqual(c, d) ==
    IF JsGt(At(c, d), At(c, d + 1)) \/ (d + 1 < Len(c) /\ At(c, d) = At(c, d + 1))
    THEN skipSlopeOrEqual(c, d + 1)
    ELSE d

\* lines 71-72: while (c[d] > c[d + 1]) d++
RECURSIVE skipSlope(_, _)
skipSlope(c, d) ==
    IF JsGt(At(c, d), At(c, d + 1)) THEN skipSlope(c, d + 1) ELSE d

\* lines 75-82: the peak search from i to the end, as [maxval, maxpos]
RECURSIVE peakFrom(_, _, _)
peakFrom(c, i, best) ==
    IF i >= Len(c) THEN best
    ELSE IF JsGt(At(c, i), best.maxval)
         THEN peakFrom(c, i + 1, [maxval |-> At(c, i), maxpos |-> i])
         ELSE peakFrom(c, i + 1, best)

\* variant of frequencyOfPeak: the period is the integer lag maxpos, without
\* the parabolic interpolation
frequencyOfLag(c, maxpos, rate) == JsDiv(Num(rate), Num(maxpos))

\* lines 84-98: parabolic interpolation around maxpos and the division
frequencyOfPeak(c, maxpos, rate) ==
    LET x1 == At(c, maxpos - 1)
        x2 == At(c, maxpos)
        x3 == At(c, maxpos + 1)
        a == JsDiv(JsSub(JsAdd(x1, x3), JsMul(Num(2), x2)), Num(2))
        b == JsDiv(JsSub(x3, x1), Num(2))
        T0 == IF Truthy(a)
              THEN JsSub(Num(maxpos), JsDiv(b, JsMul(Num(2), a)))
              ELSE Num(maxpos)
    IN  JsDiv(Num(rate), T0)

\* lines 22-99
autoCorrelate(buffer, rate) ==
    IF tooQuiet(buffer) THEN Num(-1)
    ELSE LET trimmed == slice(buffer, trimStart(buffer), trimEnd(buffer))
             c == correlation(trimmed)
             d == skipSlope(c, 0)
             peak == peakFrom(c, d, [maxval |-> Num(-1), maxpos |-> -1])
         IN  frequencyOfPeak(c, peak.maxpos, rate)

(***************************************************************************)
(* Inputs.                                                                 *)
(***************************************************************************)
\* sample rates handed to the constructor
SampleRates == {48000}

\* pitchTolerance values handed to setSensitivity
Tolerances == {0, 5, 15}

\* Sample buffers (Float32Array) on which the model evaluates autoCorrelate:
\* silence, one loud sample (trimmed to nothing, no peak), two loud samples
\* (peak at lag 0), an alternating wave (peak inside the array) and a buffer
\* holding an infinite sample.
ExampleBuffers ==
    { << Num(0), Num(0), Num(0), Num(0) >>,
      << Rat(1, 2) >>,
      << Rat(1, 2), Rat(1, 2) >>,
      << Rat(1, 2), Rat(-1, 2), Rat(1, 2), Rat(-1, 2), Rat(1, 2), Rat(-1, 2) >>,
      << PosInf, Num(-1), Num(1), Num(-1), Num(1), Num(1) >> }

\* line 107: the estimates autoCorrelate returns for the example buffers:
\* -1, -sampleRate, +Infinity, a frequency above the range and NaN
ExampleEstimates ==
    { autoCorrelate(buffer, rate) : buffer \in ExampleBuffers, rate \in SampleRates }

\* line 107: frequencies sampleRate / T0 that autoCorrelate returns for
\* buffers of the analyser's length: 0 (T0 infinite) and values below, at,
\* inside and above the two bounds of the range gate
ExampleFrequencies ==
    { Num(0), Num(59), Num(60), Num(219), Num(220), Num(221), Num(260),
      Num(1000), Num(1001) }

\* line 107: the values of frequency the model feeds to detectPitch
RawEstimates == ExampleEstimates \cup ExampleFrequencies

\* sample values around the silence gate and below the trimming threshold:
\* 0.005 is below 0.01, 0.01 is not, 0.1 is below 0.2
QuietValues == { Num(0), Rat(1, 200), Rat(1, 100), Rat(1, 10) }

\* silence and loud samples of both signs, full scale included
LoudValues == { Num(0), Rat(1, 2), Rat(-1, 2), Num(1), Num(-1) }

\* the buffers (Float32Array) handed to autoCorrelate and detectPitch
SampleBuffers ==
    UNION { [1..n -> QuietValues] \cup [1..n -> LoudValues] :
            n \in 0..MaxBufferLen }

\* the object {}
NoSettings == [f \in {} |-> 0]

\* The argument objects of setSensitivity: any subset of the two fields.
SettingsObjects ==
    { NoSettings }
    \cup { [historySize |-> s] : s \in 1..MaxHistorySize }
    \cup { [pitchTolerance |-> t] : t \in Tolerances }
    \cup { [historySize |-> s, pitchTolerance |-> t] :
             s \in 1..MaxHistorySize, t \in Tolerances }

(***************************************************************************)
(* State.                                                                  *)
(***************************************************************************)
VARIABLES
    pitchHistory,    \* this.pitchHistory
    historySize,     \* this.historySize
    pitchTolerance,  \* this.pitchTolerance
    sampleRate,      \* this.sampleRate
    result,          \* value returned by the last call
    lastOp,          \* the last call made
    lastRaw,         \* raw estimate of the last detectPitch call
    lastSettings,    \* argument of the last setSensitivity call
    prevLen,         \* this.pitchHistory.length when the last call was made
    accepted,        \* estimates appended since the history was last emptied
    streak,          \* consecutive estimates in 60..1000 since the last
                     \* reset, setSensitivity, construction or other estimate
    dataArray,       \* the caller's sample buffer
    estimate,        \* value returned by the last autoCorrelate call
    previous,        \* value returned by the autoCorrelate call before it
    isActive,        \* component: this.isActive
    isMonitoring,    \* this.isMonitoring
    errorMessage,    \* this.errorMessage: "null" or "message"
    currentFrequency,\* this.currentFrequency: "null" or "number"
    audioContext,    \* this.audioContext: "null" or "object"
    analyser,        \* this.analyser
    microphone,      \* this.microphone
    gainNode,        \* this.gainNode
    pitchDetector,   \* this.pitchDetector
    stream,          \* this.stream
    animationFrame,  \* this.animationFrame: 0 for null, else the loop whose
                     \* latest requestAnimationFrame returned the handle
    frames,          \* loops whose animation-frame callback is scheduled
    loops,           \* detectPitchLoop() calls made so far
    pendingStarts,   \* start() calls awaiting getUserMedia
    starts,          \* start() calls that requested the microphone
    liveStreams,     \* acquired streams whose tracks are not stopped
    openContexts,    \* created audio contexts that are not closed
    connected,       \* the element is attached to the document
    stopped,         \* stop() has run and start() was not called since
    lastCall,        \* the component method or callback that ran last
    lastEvent,       \* the event dispatched last: "none", "pitch-update", "error"
    clock,           \* clock ticks since the page load
    lastDetectionTime,\* per loop: its closure variable lastDetectionTime
    callTimes,       \* per loop: the times of its last two detectPitch calls
    detections,      \* detectPitch calls made by the loops
    updates,         \* 'pitch-update' events dispatched
    bpm,             \* metronome: this.bpm
    soundEnabled,    \* this.soundEnabled
    metronomeActive, \* this.isActive of the metronome
    timerBpm,        \* the bpm last handed to this.timer, Null without timer
    storedBpm,       \* localStorage item 'metronome-bpm'
    storedSound,     \* localStorage item 'metronome-sound-enabled'
    storageThrows,   \* localStorage.setItem throws (storage full or disabled)
    lastSaved,       \* the bpm item this instance wrote last, Absent for none
    lastMetronomeCall,\* the metronome method that ran last
    frequencyArg,    \* the frequency handed to getNoteFromFrequency
    noteText,        \* the note it returned, as [name, octave]
    playingNote,     \* note player: this.playingNote, "null" for null
    timers,          \* its pending setTimeout callbacks, oldest first
    playerClock,     \* seconds since the note player was constructed
    plays,           \* playNote calls made
    started,         \* the play in progress: the last playNote, if no
                     \* stopNote followed it
    lastPlayerEvent, \* the event the note player dispatched last
    hpPosition,      \* detectHeadphones: the await it is at
    hpStream,        \* its local variable stream
    shouldCleanup,   \* its local variable shouldCleanup
    hpDevices,       \* what enumerateDevices resolved with
    hpResult,        \* what it returned
    hpPath,          \* the path it returned on
    hpCalls,         \* detectHeadphones calls made
    temporaryLive,   \* streams it acquired whose tracks are live
    callerStopped    \* the tracks of a caller's stream were stopped

\* the state of the tracker object and what its calls returned
trackerVars ==
    << pitchHistory, historySize, pitchTolerance, sampleRate, result,
       lastOp, lastRaw, lastSettings, prevLen, accepted, streak >>

\* the caller's buffer and the estimate it received
estimatorVars == << dataArray, estimate, previous >>

\* the fields of the pitch-detector component, the browser's pending
\* callbacks and resources, and what the component did last
componentVars ==
    << isActive, isMonitoring, errorMessage, currentFrequency, audioContext,
       analyser, microphone, gainNode, pitchDetector, stream, animationFrame,
       frames, loops, pendingStarts, starts, liveStreams, openContexts,
       connected, stopped, lastCall, lastEvent, clock, lastDetectionTime,
       callTimes, detections, updates >>

\* the fields of the metronome component, its localStorage items and what
\* it did last
metronomeVars ==
    << bpm, soundEnabled, metronomeActive, timerBpm, storedBpm, storedSound,
       storageThrows, lastSaved, lastMetronomeCall >>

\* everything but the tracker
\* the argument and the result of getNoteFromFrequency
noteVars == << frequencyArg, noteText >>

\* the fields of the note player, its pending timers and its clock
playerVars ==
    << playingNote, timers, playerClock, plays, started, lastPlayerEvent >>

\* one call of detectHeadphones and the streams it touched
headphoneVars ==
    << hpPosition, hpStream, shouldCleanup, hpDevices, hpResult, hpPath,
       hpCalls, temporaryLive, callerStopped >>

\* the rest of the page: what is neither tracker, estimator buffer, pitch
\* component nor metronome
pageVars == << noteVars, playerVars, headphoneVars >>

outsideTracker == << estimatorVars, componentVars, metronomeVars, pageVars >>

vars ==
    << trackerVars, estimatorVars, componentVars, metronomeVars, pageVars >>

(***************************************************************************)
(* detectPitch, lines 106-133.                                             *)
(***************************************************************************)
\* variant of rejects: only the lower bound is tested
rejectsBelowOnly(frequency) == JsLt(frequency, Num(MinFrequency))

\* variant of rejects: frequency <= 60 || frequency >= 1000
rejectsInclusive(frequency) ==
    \/ JsLt(frequency, Num(MinFrequency)) \/ frequency = Num(MinFrequency)
    \/ JsGt(frequency, Num(MaxFrequency)) \/ frequency = Num(MaxFrequency)

\* line 110: frequency < 60 || frequency > 1000
rejects(frequency) ==
    JsLt(frequency, Num(MinFrequency)) \/ JsGt(frequency, Num(MaxFrequency))

\* variant of clearedHistory: the history survives a rejected estimate
keptHistory(h) == h

\* line 111: this.pitchHistory = []
clearedHistory(h) == << >>

\* variant of pushShift: push without the shift
pushOnly(h, frequency, size) == Append(h, frequency)

\* variant of pushShift: pop (drop the newest) instead of shift
pushPop(h, frequency, size) ==
    LET pushed == Append(h, frequency)
    IN  IF Len(pushed) > size THEN h ELSE pushed

\* variant of pushShift: a full history is restarted instead of shifted
restartWhenFull(h, frequency, size) ==
    IF Len(h) >= size THEN << frequency >> ELSE Append(h, frequency)

\* lines 116-119: push, then shift when longer than historySize
pushShift(h, frequency, size) ==
    LET pushed == Append(h, frequency)
    IN  IF Len(pushed) > size THEN Tail(pushed) ELSE pushed

\* line 122: this.pitchHistory.length < this.historySize
notEnough(h, size) == Len(h) < size

\* line 127: this.pitchHistory.reduce((a, b) => a + b)
RECURSIVE reduceSum(_)
reduceSum(h) ==
    IF Len(h) = 1 THEN h[1]
    ELSE JsAdd(reduceSum(SubSeq(h, 1, Len(h) - 1)), h[Len(h)])

\* line 127: ... / this.historySize
avgFreq(h, size) == JsDivInt(reduceSum(h), size)

\* variant of isConsistent: Math.abs(freq - avgFreq) <= this.pitchTolerance
isConsistentInclusive(h, avg, tol) ==
    \A i \in 1..Len(h) :
        LET diff == JsAbs(JsSub(h[i], avg))
        IN  JsLt(diff, Num(tol)) \/ diff = Num(tol)

\* lines 128-130: every(freq => Math.abs(freq - avgFreq) < this.pitchTolerance)
isConsistent(h, avg, tol) ==
    \A i \in 1..Len(h) : JsLt(JsAbs(JsSub(h[i], avg)), Num(tol))

\* lines 121-132: the value returned once the estimate is in the history
stabilized(h, size, tol) ==
    IF notEnough(h, size) THEN Null
    ELSE LET avg == avgFreq(h, size)
         IN  IF isConsistent(h, avg, tol) THEN avg ELSE Null

\* the estimate is a frequency within 60..1000 Hz
InRange(frequency) ==
    /\ IsFinite(frequency)
    /\ frequency.n >= MinFrequency * frequency.d
    /\ frequency.n <= MaxFrequency * frequency.d

detectPitch(frequency) ==
    /\ IF rejects(frequency)
       THEN /\ pitchHistory' = clearedHistory(pitchHistory)
            /\ result' = Null
            /\ accepted' = << >>
       ELSE /\ Len(accepted) < MaxStreak
            /\ pitchHistory' = pushShift(pitchHistory, frequency, historySize)
            /\ result' = stabilized(pitchHistory', historySize, pitchTolerance)
            /\ accepted' = Append(accepted, frequency)
    /\ streak' = IF InRange(frequency) THEN streak + 1 ELSE 0
    /\ lastOp' = "detectPitch"
    /\ lastRaw' = frequency
    /\ lastSettings' = NoSettings
    /\ prevLen' = Len(pitchHistory)
    /\ UNCHANGED << historySize, pitchTolerance, sampleRate >>

(***************************************************************************)
(* reset, lines 138-140.                                                   *)
(***************************************************************************)
\* variant of resetHistory: reset() leaves the history alone
keepOnReset(h) == h

\* line 139: this.pitchHistory = []
resetHistory(h) == << >>

reset ==
    /\ pitchHistory' = resetHistory(pitchHistory)
    /\ result' = Undefined
    /\ lastOp' = "reset"
    /\ lastRaw' = Undefined
    /\ lastSettings' = NoSettings
    /\ prevLen' = Len(pitchHistory)
    /\ accepted' = << >>
    /\ streak' = 0
    /\ UNCHANGED << historySize, pitchTolerance, sampleRate >>

(***************************************************************************)
(* setSensitivity, lines 146-154.                                          *)
(***************************************************************************)
\* variant of newHistorySize: a missing field falls back to the default
historySizeOrDefault(settings, size) ==
    IF "historySize" \in DOMAIN settings THEN settings.historySize
    ELSE DefaultHistorySize

\* lines 147-149
newHistorySize(settings, size) ==
    IF "historySize" \in DOMAIN settings THEN settings.historySize ELSE size

\* lines 150-152
newPitchTolerance(settings, tol) ==
    IF "pitchTolerance" \in DOMAIN settings THEN settings.pitchTolerance
    ELSE tol

\* variant of sensitivityHistory: reset only when a field was given
resetWhenChanged(settings, h) ==
    IF DOMAIN settings = {} THEN h ELSE resetHistory(h)

\* line 153: this.reset()
sensitivityHistory(settings, h) == resetHistory(h)

setSensitivity(settings) ==
    /\ settings \in SettingsObjects
    /\ historySize' = newHistorySize(settings, historySize)
    /\ pitchTolerance' = newPitchTolerance(settings, pitchTolerance)
    /\ pitchHistory' = sensitivityHistory(settings, pitchHistory)
    /\ result' = Undefined
    /\ lastOp' = "setSensitivity"
    /\ lastRaw' = Undefined
    /\ lastSettings' = settings
    /\ prevLen' = Len(pitchHistory)
    /\ accepted' = << >>
    /\ streak' = 0
    /\ UNCHANGED sampleRate

(***************************************************************************)
(* Specification.                                                          *)
(***************************************************************************)
\* constructor, lines 6-14
constructed ==
    /\ pitchHistory = << >>
    /\ historySize = DefaultHistorySize
    /\ pitchTolerance = DefaultPitchTolerance
    /\ sampleRate \in SampleRates
    /\ result = Undefined
    /\ lastOp = "constructor"
    /\ lastRaw = Undefined
    /\ lastSettings = NoSettings
    /\ prevLen = 0
    /\ accepted = << >>
    /\ streak = 0

\* no buffer has been handed over and autoCorrelate has not been called
noBuffer ==
    /\ dataArray = << >>
    /\ estimate = Undefined
    /\ previous = Undefined

\* the tracker alone: estimates are fed to detectPitch
\* PitchDetector.js lines 27-45: the component after construction
componentConstructed ==
    /\ isActive = FALSE
    /\ isMonitoring = FALSE
    /\ errorMessage = "null"
    /\ currentFrequency = "null"
    /\ audioContext = "null"
    /\ analyser = "null"
    /\ microphone = "null"
    /\ gainNode = "null"
    /\ pitchDetector = "null"
    /\ stream = "null"
    /\ animationFrame = 0
    /\ frames = {}
    /\ loops = 0
    /\ pendingStarts = 0
    /\ starts = 0
    /\ liveStreams = 0
    /\ openContexts = 0
    /\ connected = FALSE
    /\ stopped = FALSE
    /\ lastCall = "constructor"
    /\ lastEvent = "none"
    /\ clock = 0
    /\ lastDetectionTime = << >>
    /\ callTimes = << >>
    /\ detections = 0
    /\ updates = 0

\* what localStorage.getItem returns: null for an absent item, else a string
Absent == [present |-> FALSE, text |-> << >>]

Item(str) == [present |-> TRUE, text |-> str]

\* PitchDetector.js lines 415-428 with nothing in localStorage
metronomeFirstRun ==
    /\ bpm = Num(60)
    /\ soundEnabled = FALSE
    /\ metronomeActive = FALSE
    /\ timerBpm = Null
    /\ storedBpm = Absent
    /\ storedSound = Absent
    /\ storageThrows = FALSE
    /\ lastSaved = Absent
    /\ lastMetronomeCall = "constructor"

\* the template string `${name}${octave}` as its two parts
Note(name, octave) == [name |-> name, octave |-> octave]

\* getNoteFromFrequency has not been called
noNoteAsked ==
    /\ frequencyArg = Undefined
    /\ noteText = Note("", 0)

\* no play in progress
NoPlay == [active |-> FALSE, note |-> "null", at |-> 0]

\* NotePlayer constructor, lines 25-36: this.playingNote = null
playerConstructed ==
    /\ playingNote = "null"
    /\ timers = << >>
    /\ playerClock = 0
    /\ plays = 0
    /\ started = NoPlay
    /\ lastPlayerEvent = "none"

\* detectHeadphones has not been called
headphonesIdle ==
    /\ hpPosition = "idle"
    /\ hpStream = "null"
    /\ shouldCleanup = FALSE
    /\ hpDevices = << >>
    /\ hpResult = "pending"
    /\ hpPath = "none"
    /\ hpCalls = 0
    /\ temporaryLive = 0
    /\ callerStopped = FALSE

\* the rest of the page is idle
pageIdle == noNoteAsked /\ playerConstructed /\ headphonesIdle

Init ==
    /\ constructed
    /\ noBuffer
    /\ componentConstructed
    /\ metronomeFirstRun
    /\ pageIdle

Next ==
    \/ \E frequency \in RawEstimates :
          detectPitch(frequency) /\ UNCHANGED outsideTracker
    \/ reset /\ UNCHANGED outsideTracker
    \/ \E settings \in SettingsObjects :
          setSensitivity(settings) /\ UNCHANGED outsideTracker

Spec == Init /\ [][Next]_vars

(***************************************************************************)
(* The estimator and the tracker on sample buffers.                        *)
(***************************************************************************)
\* variant of bufferAfterCall: the caller's array is trimmed in place
trimmedInPlace(buffer) ==
    slice(buffer, trimStart(buffer), trimEnd(buffer))

\* lines 22-99: autoCorrelate writes no element of the caller's array; line
\* 58 rebinds its own parameter to the copy slice() returns
bufferAfterCall(buffer) == buffer

\* a direct call autoCorrelate(dataArray, this.sampleRate)
autoCorrelateCall ==
    /\ estimate' = autoCorrelate(dataArray, sampleRate)
    /\ previous' = estimate
    /\ dataArray' = bufferAfterCall(dataArray)
    /\ lastOp' = "autoCorrelate"
    /\ UNCHANGED << componentVars, metronomeVars, pageVars >>
    /\ UNCHANGED << pitchHistory, historySize, pitchTolerance, sampleRate,
                    result, lastRaw, lastSettings, prevLen, accepted, streak >>

\* lines 106-107: detectPitch(dataArray) calls autoCorrelate on the buffer
detectPitchCall ==
    /\ detectPitch(autoCorrelate(dataArray, sampleRate))
    /\ dataArray' = bufferAfterCall(dataArray)
    /\ UNCHANGED << estimate, previous, componentVars, metronomeVars,
                    pageVars >>

\* the tracker after detectPitch returned null for the estimates 220, 221
afterTwoEstimates ==
    /\ pitchHistory = << Num(220), Num(221) >>
    /\ historySize = DefaultHistorySize
    /\ pitchTolerance = DefaultPitchTolerance
    /\ sampleRate \in SampleRates
    /\ result = Null
    /\ lastOp = "detectPitch"
    /\ lastRaw = Num(221)
    /\ lastSettings = NoSettings
    /\ prevLen = 1
    /\ accepted = << Num(220), Num(221) >>
    /\ streak = 2

\* a caller holding any sample buffer and a tracker that is new or has two
\* estimates in its history
InitEstimator ==
    /\ constructed \/ afterTwoEstimates
    /\ dataArray \in SampleBuffers
    /\ estimate = Undefined
    /\ previous = Undefined
    /\ componentConstructed
    /\ metronomeFirstRun
    /\ pageIdle

NextEstimator ==
    \/ autoCorrelateCall
    \/ detectPitchCall
    \/ reset /\ UNCHANGED outsideTracker

SpecEstimator == InitEstimator /\ [][NextEstimator]_vars

(***************************************************************************)
(* Properties of the tracker.                                              *)
(***************************************************************************)
\* the last call was detectPitch and it returned a frequency
ReturnedFrequency == lastOp = "detectPitch" /\ result # Null

\* the last call was detectPitch and it appended its estimate
Appended == lastOp = "detectPitch" /\ accepted # << >>

\* C1: detectPitch returns a frequency only when at least historySize
\* consecutive estimates within 60..1000 have been received since the last
\* reset, setSensitivity, construction or out-of-range estimate; an
\* out-of-range reading returns null and restarts the count at zero, also
\* after historySize-1 readings in range.
C1_NoFrequencyBeforeHistorySizeReadings ==
    /\ ReturnedFrequency => streak >= historySize
    /\ (lastOp = "detectPitch" /\ ~InRange(lastRaw)) => result = Null

\* a frequency returned by exactly the historySize-th consecutive reading
\* in range
C1_Witness ==
    /\ ReturnedFrequency
    /\ historySize = DefaultHistorySize
    /\ streak = historySize
    /\ Len(accepted) = historySize

\* C2: a raw estimate that is the no-pitch value -1, or below 60, or above
\* 1000, empties the history and makes detectPitch return null, whatever the
\* history, historySize and pitchTolerance were.
C2_RejectedEstimateClears ==
    ( /\ lastOp = "detectPitch"
      /\ \/ lastRaw = Num(-1)
         \/ lastRaw.k = "inf"
         \/ /\ lastRaw.k = "num"
            /\ \/ lastRaw.n < MinFrequency * lastRaw.d
               \/ lastRaw.n > MaxFrequency * lastRaw.d )
    => (pitchHistory = << >> /\ result = Null)

\* an estimate above 1000 emptied a full history under changed settings
C2_Witness ==
    /\ lastOp = "detectPitch"
    /\ lastRaw = Num(MaxFrequency + 1)
    /\ prevLen = historySize
    /\ historySize # DefaultHistorySize
    /\ pitchTolerance # DefaultPitchTolerance
    /\ pitchHistory = << >>
    /\ result = Null

\* the sum of the entries of a history of finite entries, as num / den
RECURSIVE ProductDen(_)
ProductDen(h) == IF h = << >> THEN 1 ELSE Head(h).d * ProductDen(Tail(h))

RECURSIVE SumNum(_)
SumNum(h) ==
    IF h = << >> THEN 0
    ELSE SumNum(Tail(h)) * Head(h).d + Head(h).n * ProductDen(Tail(h))

\* every entry of h is finite and differs from the mean of h by less than tol
AllWithinToleranceOfMean(h, tol) ==
    /\ \A i \in 1..Len(h) : IsFinite(h[i])
    /\ \A i \in 1..Len(h) :
         AbsInt(h[i].n * Len(h) * ProductDen(h) - SumNum(h) * h[i].d)
            < tol * h[i].d * Len(h) * ProductDen(h)

\* the arithmetic mean of a history of finite entries
MeanOf(h) == Rat(SumNum(h), Len(h) * ProductDen(h))

\* C3: when the history holds historySize entries after the append,
\* detectPitch returns the arithmetic mean of the entries if every entry
\* differs from the mean by strictly less than pitchTolerance, and null
\* otherwise; with historySize 3 and pitchTolerance 15 the estimates
\* 220, 221, 219 give 220 and the estimates 220, 260, 219 give null.
C3_MeanIffWithinTolerance ==
    /\ (Appended /\ Len(pitchHistory) = historySize) =>
          IF AllWithinToleranceOfMean(pitchHistory, pitchTolerance)
          THEN result = MeanOf(pitchHistory)
          ELSE result = Null
    /\ ( /\ Appended
         /\ historySize = 3
         /\ pitchTolerance = 15
         /\ pitchHistory = << Num(220), Num(221), Num(219) >> )
       => result = Num(220)
    /\ ( /\ Appended
         /\ historySize = 3
         /\ pitchTolerance = 15
         /\ pitchHistory = << Num(220), Num(260), Num(219) >> )
       => result = Null

\* the third of the estimates 220, 221, 219 returned their mean 220
C3_Witness ==
    /\ Appended
    /\ historySize = 3
    /\ pitchTolerance = 15
    /\ pitchHistory = << Num(220), Num(221), Num(219) >>
    /\ result = Num(220)

\* C4: the range gate is strict: an estimate of exactly 60 or exactly 1000
\* is appended to the history, which is not cleared; a finite estimate below
\* 60 or above 1000 is rejected (the history is emptied).
C4_BoundariesAccepted ==
    [][ /\ (lastOp' = "detectPitch"
            /\ lastRaw' \in {Num(MinFrequency), Num(MaxFrequency)})
           => /\ Len(pitchHistory') >= 1
              /\ Len(pitchHistory') >= Len(pitchHistory)
              /\ pitchHistory'[Len(pitchHistory')] = lastRaw'
        /\ (lastOp' = "detectPitch"
            /\ lastRaw' \in {Num(MinFrequency - 1), Num(MaxFrequency + 1)})
           => pitchHistory' = << >>
      ]_vars

\* 1000 was appended to a history that already held 60
C4_Witness ==
    /\ lastOp = "detectPitch"
    /\ lastRaw = Num(MaxFrequency)
    /\ Len(pitchHistory) = 3
    /\ pitchHistory[1] = Num(MinFrequency)
    /\ pitchHistory[3] = Num(MaxFrequency)

\* the last call was a detectPitch whose estimate is not within 60..1000
RejectedEstimate == lastOp = "detectPitch" /\ ~InRange(lastRaw)

\* C5 as stated: the history never holds more than historySize entries and
\* it is empty only immediately after a reset (an explicit reset, a rejected
\* estimate or setSensitivity).
C5_EmptyOnlyAfterReset ==
    /\ Len(pitchHistory) <= historySize
    /\ Len(pitchHistory) = 0 =>
          \/ lastOp \in {"reset", "setSensitivity"}
          \/ RejectedEstimate

\* C5 amended: the history never holds more than historySize entries and it
\* is empty only right after construction or immediately after a reset (an
\* explicit reset, a rejected estimate or setSensitivity).
C5_EmptyOnlyAfterConstructionOrReset ==
    /\ Len(pitchHistory) <= historySize
    /\ Len(pitchHistory) = 0 =>
          \/ lastOp \in {"constructor", "reset", "setSensitivity"}
          \/ RejectedEstimate

\* an estimate was appended to a full history, which stayed full
C5_Witness ==
    /\ Appended
    /\ prevLen = historySize
    /\ Len(pitchHistory) = historySize
    /\ Len(accepted) > historySize

\* C6: every entry of the history is a raw estimate within 60..1000 Hz; no
\* value the estimator returns outside that range (-1, zero, negative,
\* infinite or NaN) is ever appended.
C6_HistoryEntriesInRange ==
    \A i \in 1..Len(pitchHistory) : InRange(pitchHistory[i])

\* the smaller of two integers
Min(a, b) == IF a < b THEN a ELSE b

\* the last n entries of a sequence
LastN(q, n) == SubSeq(q, Len(q) - n + 1, Len(q))

\* C7: the history is a FIFO of capacity historySize: it holds exactly the
\* most recent min(k, historySize) of the k estimates appended since it was
\* last emptied, in arrival order; an append to a full history evicts
\* exactly the oldest entry.
C7_HistoryIsFifo ==
    pitchHistory = LastN(accepted, Min(Len(accepted), historySize))

\* an append to a full history of more than one entry evicted the oldest
C7_Witness ==
    /\ Appended
    /\ historySize > 1
    /\ prevLen = historySize
    /\ Len(accepted) > historySize
    /\ pitchHistory[1] # accepted[1]
    /\ pitchHistory[Len(pitchHistory)] = lastRaw

\* C8: reset() in any state empties the history and changes nothing else;
\* after it detectPitch returns null until historySize further consecutive
\* readings in range have been fed.
C8_ResetClearsOnlyHistory ==
    [][ /\ lastOp' = "reset" =>
              /\ pitchHistory' = << >>
              /\ historySize' = historySize
              /\ pitchTolerance' = pitchTolerance
              /\ sampleRate' = sampleRate
        /\ (lastOp' = "detectPitch" /\ streak + 1 < historySize) =>
              result' = Null
      ]_vars

\* reset() emptied a full history under changed settings
C8_Witness ==
    /\ lastOp = "reset"
    /\ prevLen = historySize
    /\ historySize = 2
    /\ pitchTolerance = 5
    /\ pitchHistory = << >>

\* C9: setSensitivity in any state, with any subset of the two fields (none
\* included, or values equal to the current ones), empties the history at
\* once, so the next frequency needs historySize (the new value) further
\* consecutive readings in range.
C9_SetSensitivityClears ==
    [][ /\ lastOp' = "setSensitivity" => pitchHistory' = << >>
        /\ (lastOp' = "detectPitch" /\ Len(pitchHistory) + 1 < historySize) =>
              result' = Null
      ]_vars

\* setSensitivity({}) emptied a history that held entries
C9_Witness ==
    /\ lastOp = "setSensitivity"
    /\ lastSettings = NoSettings
    /\ prevLen > 0
    /\ pitchHistory = << >>

\* C10: setSensitivity updates exactly the fields its argument holds: a call
\* giving only pitchTolerance leaves historySize unchanged, a call giving
\* only historySize leaves pitchTolerance unchanged, and none changes
\* sampleRate.
C10_OnlyGivenFieldsChange ==
    [][ lastOp' = "setSensitivity" =>
          /\ sampleRate' = sampleRate
          /\ historySize' =
                IF "historySize" \in DOMAIN lastSettings'
                THEN lastSettings'.historySize ELSE historySize
          /\ pitchTolerance' =
                IF "pitchTolerance" \in DOMAIN lastSettings'
                THEN lastSettings'.pitchTolerance ELSE pitchTolerance
      ]_vars

\* a call giving only pitchTolerance kept a historySize that is not the
\* default
C10_Witness ==
    /\ lastOp = "setSensitivity"
    /\ DOMAIN lastSettings = {"pitchTolerance"}
    /\ historySize # DefaultHistorySize
    /\ pitchTolerance = lastSettings.pitchTolerance

\* C16: the tracker follows the Empty / Filling / Stable machine: a
\* detectPitch call takes the length of the history to 0 (rejected
\* estimate), from n to n + 1 when n < historySize, or leaves it at
\* historySize when it is full; the length never decreases to a value other
\* than 0, and only a rejection, reset() or setSensitivity() brings it to 0.
C16_LengthStateMachine ==
    [][ /\ lastOp' = "detectPitch" =>
              \/ Len(pitchHistory') = 0 /\ ~InRange(lastRaw')
              \/ /\ Len(pitchHistory) < historySize
                 /\ Len(pitchHistory') = Len(pitchHistory) + 1
              \/ /\ Len(pitchHistory) = historySize
                 /\ Len(pitchHistory') = historySize
        /\ Len(pitchHistory') < Len(pitchHistory) => Len(pitchHistory') = 0
        /\ (Len(pitchHistory') = 0 /\ Len(pitchHistory) > 0) =>
              \/ lastOp' \in {"reset", "setSensitivity"}
              \/ lastOp' = "detectPitch" /\ ~InRange(lastRaw')
      ]_vars

\* a rejected estimate took a full history of three entries to empty
C16_Witness ==
    /\ lastOp = "detectPitch"
    /\ historySize = 3
    /\ prevLen = 3
    /\ ~InRange(lastRaw)
    /\ pitchHistory = << >>

\* C17: no tracker state is fatal: whatever the state before, once the last
\* historySize estimates are consecutive, within 60..1000 and each within
\* pitchTolerance of their mean, the call returns that mean; a full history
\* (consistent or not) is not cleared by an appended estimate, it slides by
\* one entry.
C17_RecoversFromAnyState ==
    [][ /\ ( /\ lastOp' = "detectPitch"
             /\ streak' >= historySize
             /\ Len(accepted') >= historySize
             /\ AllWithinToleranceOfMean(LastN(accepted', historySize),
                                         pitchTolerance) )
           => result' = MeanOf(LastN(accepted', historySize))
        /\ ( /\ lastOp' = "detectPitch"
             /\ accepted' # << >>
             /\ Len(pitchHistory) = historySize )
           => pitchHistory' = Append(Tail(pitchHistory), lastRaw')
      ]_vars

\* with historySize 2, a full history whose two entries were too far apart
\* slid twice and the fourth estimate returned the mean of the last two
C17_Witness ==
    /\ ReturnedFrequency
    /\ historySize = 2
    /\ Len(accepted) = 4
    /\ ~AllWithinToleranceOfMean(SubSeq(accepted, 1, 2), pitchTolerance)
    /\ ~AllWithinToleranceOfMean(SubSeq(accepted, 2, 3), pitchTolerance)
    /\ result = MeanOf(SubSeq(accepted, 3, 4))

(***************************************************************************)
(* The pitch-detector component (components/PitchDetector/PitchDetector.js)*)
(* with the browser's pending promises and animation frames.               *)
(***************************************************************************)
\* how a pending start() continues: getUserMedia resolves and the audio
\* graph is built, getUserMedia rejects, or getUserMedia resolves and the
\* AudioContext constructor throws
StartOutcomes == { "granted", "denied", "contextThrows" }

\* what this.pitchDetector.detectPitch(dataArray) returns: null or a number
DetectedValues == { "null", "number" }

\* lines 163-177: a frequency is smoothed into currentFrequency, anything
\* else sets it to null
frequencyShown(frequency) ==
    IF frequency = "number" THEN "number" ELSE "null"

\* line 146: detectionInterval, in milliseconds
DetectionInterval == 100

\* the milliseconds of one clock tick, and Date.now() at the page load
TickMillis == 50
LoadMillis == 1000

\* line 151: Date.now()
now == LoadMillis + clock * TickMillis

\* the clock, the loops' closure variables and the counts of their calls
detectionVars ==
    << clock, lastDetectionTime, callTimes, detections, updates >>

\* variant of isDue: every animation frame detects
isDueEveryFrame(time, last) == TRUE

\* line 154: now - lastDetectionTime >= detectionInterval
isDue(time, last) == time - last >= DetectionInterval

\* the times of the last two calls once a call is made at time
withCall(times, time) ==
    IF Len(times) < 2 THEN Append(times, time) ELSE << times[2], time >>

\* lines 155-184 in the loop's closure: one detectPitch call, one event
detection(loop, frequency) ==
    /\ currentFrequency' = frequencyShown(frequency)
    /\ lastEvent' = "pitch-update"
    /\ detections' = detections + 1
    /\ updates' = updates + 1

\* line 149 in the first detect() call made by detectPitchLoop() at line 122:
\* the call goes on only if this.isActive is already true
startsLoop(active) == active

\* lines 77-78 and 82: start() returns at once when active, else it awaits
\* getUserMedia
startBody ==
    IF isActive
    THEN UNCHANGED << pendingStarts, starts, stopped >>
    ELSE /\ starts < MaxStarts
         /\ pendingStarts' = pendingStarts + 1
         /\ starts' = starts + 1
         /\ stopped' = FALSE

start ==
    /\ UNCHANGED detectionVars
    /\ startBody
    /\ lastCall' = "start"
    /\ UNCHANGED << isActive, isMonitoring, errorMessage, currentFrequency,
                    audioContext, analyser, microphone, gainNode,
                    pitchDetector, stream, animationFrame, frames, loops,
                    liveStreams, openContexts, connected, lastEvent >>

\* lines 127-135: the catch block
startFailed ==
    /\ errorMessage' = "message"
    /\ lastEvent' = "error"

\* lines 82-135 after the await, for one pending start()
startResume(outcome, frequency) ==
    /\ pendingStarts > 0
    /\ pendingStarts' = pendingStarts - 1
    /\ lastCall' = "startResume"
    /\ CASE outcome = "denied" ->
              /\ startFailed
              /\ UNCHANGED << isActive, currentFrequency, audioContext,
                              analyser, microphone, gainNode, pitchDetector,
                              stream, animationFrame, frames, loops,
                              liveStreams, openContexts, lastDetectionTime,
                              callTimes, detections, updates >>
         [] outcome = "contextThrows" ->
              /\ stream' = "object"
              /\ liveStreams' = liveStreams + 1
              /\ startFailed
              /\ UNCHANGED << isActive, currentFrequency, audioContext,
                              analyser, microphone, gainNode, pitchDetector,
                              animationFrame, frames, loops, openContexts,
                              lastDetectionTime, callTimes, detections,
                              updates >>
         [] outcome = "granted" ->
              /\ stream' = "object"
              /\ liveStreams' = liveStreams + 1
              /\ audioContext' = "object"
              /\ openContexts' = openContexts + 1
              /\ analyser' = "object"
              /\ microphone' = "object"
              /\ gainNode' = "object"
              /\ pitchDetector' = "object"
              /\ loops' = loops + 1
              /\ IF startsLoop(isActive)
                 THEN /\ IF isDue(now, 0)
                         THEN /\ detection(loops + 1, frequency)
                              /\ lastDetectionTime' =
                                    Append(lastDetectionTime, now)
                              /\ callTimes' = Append(callTimes, << now >>)
                         ELSE /\ lastDetectionTime' =
                                    Append(lastDetectionTime, 0)
                              /\ callTimes' = Append(callTimes, << >>)
                              /\ UNCHANGED << currentFrequency, lastEvent,
                                              detections, updates >>
                      /\ animationFrame' = loops + 1
                      /\ frames' = frames \cup { loops + 1 }
                 ELSE /\ lastDetectionTime' = Append(lastDetectionTime, 0)
                      /\ callTimes' = Append(callTimes, << >>)
                      /\ UNCHANGED << currentFrequency, lastEvent,
                                      detections, updates, animationFrame,
                                      frames >>
              /\ isActive' = TRUE
              /\ errorMessage' = "null"
    /\ UNCHANGED << isMonitoring, starts, connected, stopped, clock >>

\* lines 148-189: the animation-frame callback detect() of one loop
detect(loop, frequency) ==
    /\ loop \in frames
    /\ lastCall' = "detect"
    /\ IF ~isActive
       THEN /\ frames' = frames \ { loop }
            /\ UNCHANGED << currentFrequency, lastEvent, animationFrame,
                            lastDetectionTime, callTimes, detections,
                            updates >>
       ELSE /\ IF isDue(now, lastDetectionTime[loop])
               THEN /\ detection(loop, frequency)
                    /\ lastDetectionTime' =
                          [lastDetectionTime EXCEPT ![loop] = now]
                    /\ callTimes' =
                          [callTimes EXCEPT ![loop] = withCall(@, now)]
               ELSE UNCHANGED << currentFrequency, lastEvent,
                                 lastDetectionTime, callTimes, detections,
                                 updates >>
            /\ animationFrame' = loop
            /\ frames' = frames
    /\ UNCHANGED << isActive, isMonitoring, errorMessage, audioContext,
                    analyser, microphone, gainNode, pitchDetector, stream,
                    loops, pendingStarts, starts, liveStreams, openContexts,
                    connected, stopped, clock >>

\* TickMillis milliseconds pass
tick ==
    /\ clock < MaxTicks
    /\ clock' = clock + 1
    /\ UNCHANGED << isActive, isMonitoring, errorMessage, currentFrequency,
                    audioContext, analyser, microphone, gainNode,
                    pitchDetector, stream, animationFrame, frames, loops,
                    pendingStarts, starts, liveStreams, openContexts,
                    connected, stopped, lastCall, lastEvent,
                    lastDetectionTime, callTimes, detections, updates >>

\* lines 197-238
stopBody ==
    /\ isActive' = FALSE
    /\ frames' = frames \ { animationFrame }
    /\ animationFrame' = 0
    /\ gainNode' = "null"
    /\ microphone' = "null"
    /\ analyser' = "null"
    /\ liveStreams' = IF stream # "null" THEN liveStreams - 1 ELSE liveStreams
    /\ stream' = "null"
    /\ openContexts' =
          IF audioContext # "null" THEN openContexts - 1 ELSE openContexts
    /\ audioContext' = "null"
    /\ currentFrequency' = "null"
    /\ isMonitoring' = FALSE
    /\ pitchDetector' = "null"
    /\ stopped' = TRUE

stop ==
    /\ UNCHANGED detectionVars
    /\ stopBody
    /\ lastCall' = "stop"
    /\ UNCHANGED << errorMessage, loops, pendingStarts, starts, connected,
                    lastEvent >>

\* lines 243-249
toggle ==
    /\ UNCHANGED detectionVars
    /\ lastCall' = "toggle"
    /\ IF isActive
       THEN /\ stopBody
            /\ UNCHANGED << errorMessage, loops, pendingStarts, starts,
                            connected, lastEvent >>
       ELSE /\ startBody
            /\ UNCHANGED << isActive, isMonitoring, errorMessage,
                            currentFrequency, audioContext, analyser,
                            microphone, gainNode, pitchDetector, stream,
                            animationFrame, frames, loops, liveStreams,
                            openContexts, connected, lastEvent >>

\* variant of toggleMonitoring: without the guard on gainNode and
\* audioContext
toggleMonitoringUnguarded ==
    /\ UNCHANGED detectionVars
    /\ lastCall' = "toggleMonitoring"
    /\ isMonitoring' = ~isMonitoring
    /\ UNCHANGED << isActive, errorMessage, currentFrequency, audioContext,
                    analyser, microphone, gainNode, pitchDetector, stream,
                    animationFrame, frames, loops, pendingStarts, starts,
                    liveStreams, openContexts, connected, stopped, lastEvent >>

\* lines 254-269
toggleMonitoring ==
    /\ UNCHANGED detectionVars
    /\ lastCall' = "toggleMonitoring"
    /\ IF gainNode = "null" \/ audioContext = "null"
       THEN UNCHANGED isMonitoring
       ELSE isMonitoring' = ~isMonitoring
    /\ UNCHANGED << isActive, errorMessage, currentFrequency, audioContext,
                    analyser, microphone, gainNode, pitchDetector, stream,
                    animationFrame, frames, loops, pendingStarts, starts,
                    liveStreams, openContexts, connected, stopped, lastEvent >>

\* lines 52-63
connectedCallback ==
    /\ UNCHANGED detectionVars
    /\ ~connected
    /\ connected' = TRUE
    /\ lastCall' = "connectedCallback"
    /\ UNCHANGED << isActive, isMonitoring, errorMessage, currentFrequency,
                    audioContext, analyser, microphone, gainNode,
                    pitchDetector, stream, animationFrame, frames, loops,
                    pendingStarts, starts, liveStreams, openContexts,
                    stopped, lastEvent >>

\* lines 65-72
disconnectedCallback ==
    /\ UNCHANGED detectionVars
    /\ connected
    /\ stopBody
    /\ connected' = FALSE
    /\ lastCall' = "disconnectedCallback"
    /\ UNCHANGED << errorMessage, loops, pendingStarts, starts, lastEvent >>

\* everything but the component
outsideComponent ==
    << trackerVars, estimatorVars, metronomeVars, pageVars >>

InitComponent ==
    /\ constructed
    /\ noBuffer
    /\ componentConstructed
    /\ metronomeFirstRun
    /\ pageIdle

NextComponent ==
    \/ start /\ UNCHANGED outsideComponent
    \/ \E outcome \in StartOutcomes, frequency \in DetectedValues :
          startResume(outcome, frequency) /\ UNCHANGED outsideComponent
    \/ \E loop \in frames, frequency \in DetectedValues :
          detect(loop, frequency) /\ UNCHANGED outsideComponent
    \/ tick /\ UNCHANGED outsideComponent
    \/ stop /\ UNCHANGED outsideComponent
    \/ toggle /\ UNCHANGED outsideComponent
    \/ toggleMonitoring /\ UNCHANGED outsideComponent
    \/ connectedCallback /\ UNCHANGED outsideComponent
    \/ disconnectedCallback /\ UNCHANGED outsideComponent

SpecComponent == InitComponent /\ [][NextComponent]_vars

(***************************************************************************)
(* The metronome component VisualMetronome (PitchDetector.js lines 391ff)  *)
(* and its settings in localStorage.  Strings are sequences of characters. *)
(***************************************************************************)
Digits == << "0", "1", "2", "3", "4", "5", "6", "7", "8", "9" >>

IsDigit(ch) == \E i \in 1..10 : Digits[i] = ch

DigitValue(ch) == (CHOOSE i \in 1..10 : Digits[i] = ch) - 1

\* the decimal digits of a natural number
RECURSIVE digitsOf(_)
digitsOf(n) ==
    IF n < 10 THEN << Digits[n + 1] >>
    ELSE Append(digitsOf(n \div 10), Digits[(n % 10) + 1])

\* Number.prototype.toString() on an integer or NaN
toString(x) ==
    IF x.k = "nan" THEN << "N", "a", "N" >>
    ELSE IF x.n < 0 THEN << "-" >> \o digitsOf(-x.n)
    ELSE digitsOf(x.n)

\* the value of the longest prefix of digits of str, starting from acc
RECURSIVE digitsValue(_, _)
digitsValue(str, acc) ==
    IF str = << >> \/ ~IsDigit(Head(str)) THEN acc
    ELSE digitsValue(Tail(str), 10 * acc + DigitValue(Head(str)))

\* parseInt(str, 10): an optional sign and the leading digits, NaN when
\* there is no digit
parseInt(str) ==
    LET negative == str # << >> /\ Head(str) = "-"
        signed == str # << >> /\ Head(str) \in { "-", "+" }
        rest == IF signed THEN Tail(str) ELSE str
    IN  IF rest = << >> \/ ~IsDigit(Head(rest)) THEN NaN
        ELSE IF negative THEN Num(-digitsValue(rest, 0))
        ELSE Num(digitsValue(rest, 0))

\* Math.min(x, y) and Math.max(x, y): NaN when an argument is NaN
JsMin(x, y) ==
    IF x.k = "nan" \/ y.k = "nan" THEN NaN
    ELSE IF JsLt(y, x) THEN y ELSE x

JsMax(x, y) ==
    IF x.k = "nan" \/ y.k = "nan" THEN NaN
    ELSE IF JsGt(y, x) THEN y ELSE x

\* x !== y on numbers: NaN differs from itself
StrictlyUnequal(x, y) == x.k = "nan" \/ y.k = "nan" \/ x # y

\* line 418
DefaultBpm == 60
\* line 589
MinBpm == 20
MaxBpm == 240

\* lines 701-741: the deltas of the four tempo buttons
BpmDeltas == { -10, -1, 1, 10 }

\* what localStorage may hold under 'metronome-bpm' when the component is
\* constructed: nothing, the empty string, tempos the component saved, and
\* strings written by anything else that shares the origin's storage
StoredBpmItems ==
    { Absent } \cup
    { Item(str) : str \in
        { << >>, << "2", "0" >>, << "6", "0" >>, << "2", "3", "5" >>,
          << "2", "4", "0" >>, << "3", "0", "0" >>, << "5" >>, << "0" >>,
          << "-", "7" >>, << "9", "0", ".", "5" >>, << "f", "a", "s", "t" >> } }

\* the strings "true" and "false"
TrueText == << "t", "r", "u", "e" >>
FalseText == << "f", "a", "l", "s", "e" >>

\* what localStorage may hold under 'metronome-sound-enabled'
StoredSoundItems == { Absent, Item(TrueText), Item(FalseText) }

\* lines 418 and 487-491: if (savedBpm) this.bpm = parseInt(savedBpm, 10)
loadedBpm(saved) ==
    IF ~saved.present \/ saved.text = << >> THEN Num(DefaultBpm)
    ELSE parseInt(saved.text)

\* lines 420 and 489-493
loadedSound(saved) ==
    IF ~saved.present THEN FALSE ELSE saved.text = TrueText

\* lines 415-428: the constructor, loadSettings() included
metronomeConstructed ==
    /\ storedBpm \in StoredBpmItems
    /\ storedSound \in StoredSoundItems
    /\ storageThrows \in BOOLEAN
    /\ bpm = loadedBpm(storedBpm)
    /\ soundEnabled = loadedSound(storedSound)
    /\ metronomeActive = FALSE
    /\ timerBpm = Null
    /\ lastSaved = Absent
    /\ lastMetronomeCall = "constructor"

\* line 589: Math.max(20, Math.min(240, x))
clamped(x) == JsMax(Num(MinBpm), JsMin(Num(MaxBpm), x))

\* lines 499-507: saveSettings() with the bpm and sound flag to write; the
\* catch block swallows what setItem throws
saveSettings(newBpm, newSound) ==
    IF storageThrows
    THEN UNCHANGED << storedBpm, storedSound, lastSaved >>
    ELSE /\ storedBpm' = Item(toString(newBpm))
         /\ storedSound' = Item(IF newSound THEN TrueText ELSE FalseText)
         /\ lastSaved' = Item(toString(newBpm))

\* lines 588-596
changeBpm(delta) ==
    LET newBpm == clamped(JsAdd(bpm, Num(delta)))
    IN  /\ lastMetronomeCall' = "changeBpm"
        /\ IF StrictlyUnequal(newBpm, bpm)
           THEN /\ bpm' = newBpm
                /\ saveSettings(newBpm, soundEnabled)
                /\ timerBpm' = IF timerBpm = Null THEN Null ELSE newBpm
           ELSE UNCHANGED << bpm, storedBpm, storedSound, lastSaved, timerBpm >>
        /\ UNCHANGED << soundEnabled, metronomeActive, storageThrows >>

\* lines 571-586
toggleMetronome ==
    /\ lastMetronomeCall' = "toggleMetronome"
    /\ metronomeActive' = ~metronomeActive
    /\ timerBpm' = IF metronomeActive THEN timerBpm ELSE bpm
    /\ UNCHANGED << bpm, soundEnabled, storedBpm, storedSound, storageThrows,
                    lastSaved >>

\* lines 632-635
toggleSound ==
    /\ lastMetronomeCall' = "toggleSound"
    /\ soundEnabled' = ~soundEnabled
    /\ saveSettings(bpm, ~soundEnabled)
    /\ UNCHANGED << bpm, metronomeActive, timerBpm, storageThrows >>

\* the page is loaded again: a new instance is constructed from the storage
reload ==
    /\ bpm' = loadedBpm(storedBpm)
    /\ soundEnabled' = loadedSound(storedSound)
    /\ metronomeActive' = FALSE
    /\ timerBpm' = Null
    /\ lastSaved' = Absent
    /\ lastMetronomeCall' = "constructor"
    /\ UNCHANGED << storedBpm, storedSound, storageThrows >>

\* everything but the metronome
outsideMetronome ==
    << trackerVars, estimatorVars, componentVars, pageVars >>

InitMetronome ==
    /\ constructed
    /\ noBuffer
    /\ componentConstructed
    /\ metronomeConstructed
    /\ pageIdle

NextMetronome ==
    \/ \E delta \in BpmDeltas :
          changeBpm(delta) /\ UNCHANGED outsideMetronome
    \/ toggleMetronome /\ UNCHANGED outsideMetronome
    \/ toggleSound /\ UNCHANGED outsideMetronome
    \/ reload /\ UNCHANGED outsideMetronome

SpecMetronome == InitMetronome /\ [][NextMetronome]_vars

(***************************************************************************)
(* getNoteFromFrequency of the pitch-detector component (PitchDetector.js  *)
(* lines 379-386).                                                         *)
(***************************************************************************)
\* line 380
noteNames ==
    << "C", "C#", "D", "D#", "E", "F", "F#", "G", "G#", "A", "A#", "B" >>

\* line 381
a4 == 440

\* the semitones from A4 the model covers: 58 Hz .. 1017 Hz
LowestSemitone == -35
HighestSemitone == 14

\* 2^((2k - 1) / 24) in units of 1/10000 for k = LowestSemitone ..
\* HighestSemitone + 1: the frequency ratios at which
\* Math.round(12 * Math.log2(ratio)) steps from k - 1 to k
RoundingRatios ==
    <<
       1287, 1363, 1444, 1530, 1621, 1717, 1820, 1928, 2042, 2164, 2293,
       2429, 2573, 2726, 2888, 3060, 3242, 3435, 3639, 3856, 4085, 4328,
       4585, 4858, 5147, 5453, 5777, 6120, 6484, 6870, 7278, 7711, 8170,
       8655, 9170, 9715, 10293, 10905, 11554, 12241, 12968, 13740, 14557,
       15422, 16339, 17311, 18340, 19431, 20586, 21810, 23107
    >>

\* lines 382-383: Math.round(12 * Math.log2(frequency / a4)) for a frequency
\* between the first and the last rounding ratio
roundedHalfSteps(frequency) ==
    LET ratio == JsDiv(frequency, Num(a4))
        reached == { i \in 1..Len(RoundingRatios) :
                       RoundingRatios[i] * ratio.d <= ratio.n * 10000 }
    IN  LowestSemitone - 1 + Cardinality(reached)

\* x % y of JavaScript for a positive y: the sign of x
JsRem(x, y) == IF x >= 0 THEN x % y ELSE -((-x) % y)

\* Math.floor(x / y) for a positive y
floorDiv(x, y) == IF x >= 0 THEN x \div y ELSE -(((-x) + y - 1) \div y)

\* lines 379-386
getNoteFromFrequency(frequency) ==
    LET halfSteps == roundedHalfSteps(frequency)
        noteIndex == JsRem(halfSteps, 12)
        octave == floorDiv(halfSteps + 9, 12) + 4
    IN  Note(noteNames[JsRem(noteIndex + 12, 12) + 1], octave)

\* the frequencies of the equal-tempered notes LowestSemitone ..
\* HighestSemitone from A4, in 1/100 Hz
SemitoneCentiHertz ==
    <<
       5827, 6174, 6541, 6930, 7342, 7778, 8241, 8731, 9250, 9800, 10383,
       11000, 11654, 12347, 13081, 13859, 14683, 15556, 16481, 17461,
       18500, 19600, 20765, 22000, 23308, 24694, 26163, 27718, 29366,
       31113, 32963, 34923, 36999, 39200, 41530, 44000, 46616, 49388,
       52325, 55437, 58733, 62225, 65926, 69846, 73999, 78399, 83061,
       88000, 93233, 98777
    >>

\* the frequencies handed to getNoteFromFrequency: the notes, as displayed
\* with two decimals, and the whole frequencies detectPitch can return
NoteFrequencies ==
    { Rat(SemitoneCentiHertz[i], 100) : i \in 1..Len(SemitoneCentiHertz) }
    \cup { Num(hertz) : hertz \in MinFrequency..MaxFrequency }

\* line 296: render() asks for the note of the current frequency
getNoteCall ==
    /\ noteText' = getNoteFromFrequency(frequencyArg)
    /\ UNCHANGED frequencyArg

\* everything but the note display
outsideNote ==
    << trackerVars, estimatorVars, componentVars, metronomeVars, playerVars,
       headphoneVars >>

InitNote ==
    /\ constructed
    /\ noBuffer
    /\ componentConstructed
    /\ metronomeFirstRun
    /\ frequencyArg \in NoteFrequencies
    /\ noteText = Note("", 0)
    /\ playerConstructed
    /\ headphonesIdle

NextNote == getNoteCall /\ UNCHANGED outsideNote

SpecNote == InitNote /\ [][NextNote]_vars

(***************************************************************************)
(* The estimator on synthetic sine waves.                                  *)
(***************************************************************************)
\* the turn divided in 240 angle steps
TurnSteps == 240

\* a sample is a multiple of 1/20: amplitude 0.5 is 10 units
SampleUnitInverse == 20

\* 10 * sin(2 * pi * i / 240) rounded to the nearest integer, i = 0 .. 60:
\* the first quarter of a sine wave of amplitude 0.5, in units of 1/20
QuarterSine ==
    << 0, 0, 1, 1, 1, 1, 2, 2, 2, 2, 3, 3, 3, 3, 4, 4, 4, 4, 5, 5, 5, 5, 5,
       6, 6, 6, 6, 6, 7, 7, 7, 7, 7, 8, 8, 8, 8, 8, 8, 9, 9, 9, 9, 9, 9, 9,
       9, 9, 10, 10, 10, 10, 10, 10, 10, 10, 10, 10, 10, 10, 10 >>

\* the sine of an angle given in steps, by the symmetries of the wave
sineUnits(angle) ==
    LET a == angle % TurnSteps
    IN  IF a <= 60 THEN QuarterSine[a + 1]
        ELSE IF a <= 120 THEN QuarterSine[120 - a + 1]
        ELSE IF a <= 180 THEN -QuarterSine[a - 120 + 1]
        ELSE -QuarterSine[240 - a + 1]

\* angle steps per sample: 6 to 20 samples per period, so that the buffer
\* holds 2.4 to 8 periods (the analyser's 2048 samples at 48000 Hz hold
\* 2.56 periods of 60 Hz and 9.4 periods of 220 Hz)
SineSteps == 12..40

\* the phase of the first sample, in angle steps
SinePhases == { 30 * k : k \in 0..7 }

\* 0.5 * sin(2 * pi * f * n / sampleRate + phase) for n = 0 .. SineLength - 1,
\* with f = sampleRate * step / 240
SineBuffer(step, phase) ==
    [ n \in 1..SineLength |->
        Rat(sineUnits(phase + (n - 1) * step), SampleUnitInverse) ]

\* the frequency of that wave
SineFrequency(step, rate) == Rat(rate * step, TurnSteps)

SineBuffers == { SineBuffer(step, phase) : step \in SineSteps, phase \in SinePhases }

\* a caller holding a buffer with a sine wave and a new tracker
InitSine ==
    /\ constructed
    /\ dataArray \in SineBuffers
    /\ estimate = Undefined
    /\ previous = Undefined
    /\ componentConstructed
    /\ metronomeFirstRun
    /\ pageIdle

NextSine == autoCorrelateCall

SpecSine == InitSine /\ [][NextSine]_vars

(***************************************************************************)
(* The note player (NotePlayer, src/unnamed/part_000).                     *)
(***************************************************************************)
\* line 114: the delay of the auto-clear timer
AutoClearMillis == 3000

\* one step of the note player's clock
SecondMillis == 1000

\* the notes played: two of this.notes (line 32)
PlayedNotes == {"C", "A"}

\* milliseconds since the note player was constructed
playerNow == playerClock * SecondMillis

\* lines 86-115: playNote(noteName) sets playingNote, dispatches 'play-note'
\* and schedules the auto-clear; no earlier timer is cancelled
playNote(noteName) ==
    /\ plays < MaxPlays
    /\ playingNote' = noteName
    /\ lastPlayerEvent' = "play-note"
    /\ timers' = Append(timers, [note |-> noteName,
                                 due |-> playerNow + AutoClearMillis])
    /\ plays' = plays + 1
    /\ started' = [active |-> TRUE, note |-> noteName, at |-> playerNow]
    /\ UNCHANGED playerClock

\* lines 117-124
stopNote ==
    /\ playingNote' = "null"
    /\ lastPlayerEvent' = "stop-note"
    /\ started' = NoPlay
    /\ UNCHANGED << timers, playerClock, plays >>

\* lines 110-114: the callback of the oldest timer runs once its delay has
\* passed (all delays are equal, so timers run in the order they were set)
timerExpires ==
    /\ timers # << >>
    /\ Head(timers).due <= playerNow
    /\ playingNote' = IF playingNote = Head(timers).note THEN "null"
                      ELSE playingNote
    /\ timers' = Tail(timers)
    /\ UNCHANGED << playerClock, plays, started, lastPlayerEvent >>

\* a second passes
secondPasses ==
    /\ playerClock < MaxSeconds
    /\ playerClock' = playerClock + 1
    /\ UNCHANGED << playingNote, timers, plays, started, lastPlayerEvent >>

\* everything but the note player
outsidePlayer ==
    << trackerVars, estimatorVars, componentVars, metronomeVars, noteVars,
       headphoneVars >>

InitPlayer ==
    /\ constructed
    /\ noBuffer
    /\ componentConstructed
    /\ metronomeFirstRun
    /\ pageIdle

NextPlayer ==
    \/ \E noteName \in PlayedNotes : playNote(noteName) /\ UNCHANGED outsidePlayer
    \/ stopNote /\ UNCHANGED outsidePlayer
    \/ timerExpires /\ UNCHANGED outsidePlayer
    \/ secondPasses /\ UNCHANGED outsidePlayer

SpecPlayer == InitPlayer /\ [][NextPlayer]_vars

(***************************************************************************)
(* detectHeadphones (src/src/main.js, lines 24-71).                        *)
(***************************************************************************)
\* device.kind of the entries enumerateDevices resolves with
DeviceKinds == {"audioinput", "audiooutput"}

\* device.label of the entries: empty (no permission), a speaker and two
\* headphones
DeviceLabels == {"", "Speakers", "Wired Headphones", "AirPods Pro"}

\* lines 53-60: the lower-cased label includes 'headphone', 'headset',
\* 'earphone', 'airpods' or 'buds'
mentionsHeadphones(label) == label \in {"Wired Headphones", "AirPods Pro"}

\* the lists enumerateDevices resolves with
DeviceLists ==
    UNION { [1..n -> [kind : DeviceKinds, label : DeviceLabels]] :
            n \in 0..MaxDevices }

\* the values of the parameter existingStream: none, or a caller's stream
ExistingStreams == {"null", "caller"}

\* lines 24-30: the call up to its first await
detectHeadphonesCall(existingStream) ==
    /\ hpPosition \in {"idle", "returned"}
    /\ hpCalls < MaxDetections
    /\ hpCalls' = hpCalls + 1
    /\ hpStream' = existingStream
    /\ shouldCleanup' = FALSE
    /\ hpPosition' = IF existingStream = "null" THEN "getUserMedia"
                     ELSE "enumerateDevices"
    /\ hpDevices' = << >>
    /\ hpResult' = "pending"
    /\ hpPath' = "none"
    /\ UNCHANGED << temporaryLive, callerStopped >>

\* lines 31-33: getUserMedia resolves with a new stream
getUserMediaResolves ==
    /\ hpPosition = "getUserMedia"
    /\ hpStream' = "temporary"
    /\ shouldCleanup' = TRUE
    /\ temporaryLive' = temporaryLive + 1
    /\ hpPosition' = "enumerateDevices"
    /\ UNCHANGED << hpDevices, hpResult, hpPath, hpCalls, callerStopped >>

\* lines 34-39: getUserMedia rejects; return true
getUserMediaRejects ==
    /\ hpPosition = "getUserMedia"
    /\ hpPosition' = "returned"
    /\ hpResult' = "true"
    /\ hpPath' = "denied"
    /\ UNCHANGED << hpStream, shouldCleanup, hpDevices, hpCalls,
                    temporaryLive, callerStopped >>

\* lines 44, 53-63: some output device is a headphone, or there are several
headphonesFound(devices) ==
    LET audioOutputs == { i \in 1..Len(devices) :
                            devices[i].kind = "audiooutput" }
        hasHeadphones == \E i \in audioOutputs :
                            mentionsHeadphones(devices[i].label)
        hasMultipleOutputs == Cardinality(audioOutputs) > 1
    IN  hasHeadphones \/ hasMultipleOutputs

\* lines 43-65: enumerateDevices resolves; the stream is stopped if this
\* call acquired it, and the result is returned
enumerateDevicesResolves(devices) ==
    /\ hpPosition = "enumerateDevices"
    /\ hpDevices' = devices
    /\ temporaryLive' = IF shouldCleanup /\ hpStream = "temporary"
                        THEN temporaryLive - 1 ELSE temporaryLive
    /\ callerStopped' = (callerStopped
                         \/ (shouldCleanup /\ hpStream = "caller"))
    /\ hpResult' = IF headphonesFound(devices) THEN "true" ELSE "false"
    /\ hpPath' = "success"
    /\ hpPosition' = "returned"
    /\ UNCHANGED << hpStream, shouldCleanup, hpCalls >>

\* lines 43 and 66-70: enumerateDevices rejects; the outer catch returns
\* true
enumerateDevicesRejects ==
    /\ hpPosition = "enumerateDevices"
    /\ hpPosition' = "returned"
    /\ hpResult' = "true"
    /\ hpPath' = "failed"
    /\ UNCHANGED << hpStream, shouldCleanup, hpDevices, hpCalls,
                    temporaryLive, callerStopped >>

\* everything but detectHeadphones
outsideHeadphones ==
    << trackerVars, estimatorVars, componentVars, metronomeVars, noteVars,
       playerVars >>

InitHeadphones ==
    /\ constructed
    /\ noBuffer
    /\ componentConstructed
    /\ metronomeFirstRun
    /\ pageIdle

NextHeadphones ==
    \/ \E existingStream \in ExistingStreams :
          detectHeadphonesCall(existingStream) /\ UNCHANGED outsideHeadphones
    \/ getUserMediaResolves /\ UNCHANGED outsideHeadphones
    \/ getUserMediaRejects /\ UNCHANGED outsideHeadphones
    \/ \E devices \in DeviceLists :
          enumerateDevicesResolves(devices) /\ UNCHANGED outsideHeadphones
    \/ enumerateDevicesRejects /\ UNCHANGED outsideHeadphones

SpecHeadphones == InitHeadphones /\ [][NextHeadphones]_vars

(***************************************************************************)
(* Claims about the estimator, checked under SpecEstimator.                *)
(***************************************************************************)
\* the sample x in units of 1/200 (every sample value is a multiple of it)
Scaled(x) == x.n * (200 \div x.d)

\* the sum of the squares of the samples, in units of 1/40000
RECURSIVE SumSq(_)
SumSq(buffer) ==
    IF buffer = << >> THEN 0
    ELSE Scaled(Head(buffer)) * Scaled(Head(buffer)) + SumSq(Tail(buffer))

\* the root-mean-square amplitude of the buffer is below 0.01: the mean
\* square is below 1/10000 = 4/40000
RmsBelowThreshold(buffer) ==
    /\ buffer # << >>
    /\ SumSq(buffer) < 4 * Len(buffer)

\* C11: on a buffer whose root-mean-square amplitude is below 0.01,
\* autoCorrelate returns -1, and detectPitch gets -1 as its estimate,
\* returns null and empties the history.
C11_SilentBufferIsNoPitch ==
    [][ RmsBelowThreshold(dataArray) =>
          /\ lastOp' = "autoCorrelate" => estimate' = Num(-1)
          /\ lastOp' = "detectPitch" =>
                /\ lastRaw' = Num(-1)
                /\ result' = Null
                /\ pitchHistory' = << >>
      ]_vars

\* detectPitch on a silent buffer that is not all zeros emptied a history of
\* two estimates
C11_Witness ==
    /\ lastOp = "detectPitch"
    /\ RmsBelowThreshold(dataArray)
    /\ \E i \in 1..Len(dataArray) : dataArray[i] = Rat(1, 200)
    /\ Len(dataArray) = MaxBufferLen
    /\ lastRaw = Num(-1)
    /\ prevLen = 2
    /\ pitchHistory = << >>
    /\ result = Null

\* the buffer autoCorrelate analyses after trimming
Trimmed(buffer) == slice(buffer, trimStart(buffer), trimEnd(buffer))

\* the lag of the autocorrelation peak autoCorrelate finds, -1 for none
PeakLag(buffer) ==
    LET c == correlation(Trimmed(buffer))
    IN  peakFrom(c, skipSlope(c, 0), [maxval |-> Num(-1), maxpos |-> -1]).maxpos

\* the peak lag has no two neighbours in the autocorrelation array, no peak
\* was found, or nothing is left after trimming
DegeneratePeak(buffer) ==
    \/ Trimmed(buffer) = << >>
    \/ PeakLag(buffer) <= 0
    \/ PeakLag(buffer) >= Len(Trimmed(buffer)) - 1

\* C12: when the peak lag lies at a boundary of the autocorrelation array,
\* no peak is found or the trimmed buffer is empty, autoCorrelate returns -1.
C12_DegeneratePeakIsNoPitch ==
    (lastOp = "autoCorrelate" /\ DegeneratePeak(dataArray))
        => estimate = Num(-1)

\* a frequency: a finite number above zero
PositiveFinite(x) == x.k = "num" /\ x.n > 0

\* C13: the value autoCorrelate returns is -1 or a strictly positive finite
\* frequency: never zero, never another negative number, never infinite.
C13_NoPitchOrPositiveFinite ==
    lastOp = "autoCorrelate" => (estimate = Num(-1) \/ PositiveFinite(estimate))

NoSampleBelowThreshold(buffer) ==
    \A i \in 1..Len(buffer) : ~JsLt(JsAbs(buffer[i]), Rat(1, 5))

\* C15: when no sample is below the threshold 0.2, the left bound stays 0,
\* the right bound stays the buffer length and autoCorrelate analyses the
\* whole buffer.
C15_UntrimmedBufferAnalysedInFull ==
    (lastOp = "autoCorrelate" /\ NoSampleBelowThreshold(dataArray)) =>
        /\ trimStart(dataArray) = 0
        /\ trimEnd(dataArray) = Len(dataArray)
        /\ Trimmed(dataArray) = dataArray

(***************************************************************************)
(* Claims about the pitch-detector component, checked under SpecComponent. *)
(***************************************************************************)
\* C18: from the successful completion of start() until stop() is called
\* (the component is active), the detection loop is running: an
\* animation-frame callback of the loop is scheduled.
C18_LoopRunsWhileActive ==
    isActive => frames # {}

\* C19: once stop() or disconnectedCallback() has run, no start() was called
\* since and every pending start() has settled, the component is inactive,
\* no animation frame is scheduled and no stream, audio node or audio
\* context is held.
C19_CleanAfterStop ==
    (stopped /\ pendingStarts = 0) =>
        /\ ~isActive
        /\ animationFrame = 0
        /\ frames = {}
        /\ stream = "null"
        /\ audioContext = "null"
        /\ analyser = "null"
        /\ microphone = "null"
        /\ gainNode = "null"

(***************************************************************************)
(* Claims about the metronome, checked under SpecMetronome.                *)
(***************************************************************************)
\* a tempo of 20..240 BPM
InTempoRange(x) == x.k = "num" /\ x.d = 1 /\ x.n >= 20 /\ x.n <= 240

\* C20: in every state reachable from construction (loading the persisted
\* settings included) by changeBpm calls, bpm is within 20..240, and so are
\* the value handed to the timer and the value this instance persisted.
C20_BpmAlwaysInRange ==
    /\ InTempoRange(bpm)
    /\ timerBpm # Null => InTempoRange(timerBpm)
    /\ lastSaved.present => InTempoRange(parseInt(lastSaved.text))

(***************************************************************************)
(* Further claims about the tracker, checked under Spec.                   *)
(***************************************************************************)
\* C30: with pitchTolerance = 0, detectPitch never returns a frequency, not
\* even when all historySize entries are identical: it returns null.
C30_ZeroToleranceNeverReturns ==
    (lastOp = "detectPitch" /\ pitchTolerance = 0) => result = Null

\* with tolerance 0, detectPitch returned null on a full history of three
\* identical estimates
C30_Witness ==
    /\ lastOp = "detectPitch"
    /\ pitchTolerance = 0
    /\ historySize = 3
    /\ pitchHistory = << Num(220), Num(220), Num(220) >>
    /\ result = Null

(***************************************************************************)
(* Further claims about the estimator, checked under SpecEstimator.        *)
(***************************************************************************)
\* the lag at which the descending-slope skip of autoCorrelate stops
SkipLag(buffer) == skipSlope(correlation(Trimmed(buffer)), 0)

\* the smallest lag from d on with the maximum autocorrelation value
MaxLagFrom(c, d) ==
    CHOOSE i \in d..(Len(c) - 1) :
        /\ \A j \in d..(Len(c) - 1) : ~JsGt(At(c, j), At(c, i))
        /\ \A j \in d..(i - 1) : JsLt(At(c, j), At(c, i))

\* C28: the peak search of autoCorrelate finds the smallest lag with the
\* maximum autocorrelation value among the lags d .. M-1, also when all
\* values from lag d on are negative.
C28_PeakIsMaximumLag ==
    ( /\ lastOp = "autoCorrelate"
      /\ ~tooQuiet(dataArray)
      /\ Trimmed(dataArray) # << >> )
    => PeakLag(dataArray) =
          MaxLagFrom(correlation(Trimmed(dataArray)), SkipLag(dataArray))

\* the first lag d of the array c at which c[d] > c[d+1] does not hold,
\* the last lag having no successor; 0 for the empty array
FirstNonDescending(c) ==
    IF c = << >> THEN 0
    ELSE CHOOSE d \in 0..(Len(c) - 1) :
            /\ d = Len(c) - 1 \/ ~JsGt(c[d + 1], c[d + 2])
            /\ \A j \in 0..(d - 1) : JsGt(c[j + 1], c[j + 2])

\* C29: the descending-slope skip ends with d the first lag where
\* c[d] > c[d+1] fails; d is at most M-1 (0 when M = 0), also for an
\* autocorrelation that decreases over all lags.
C29_SkipStopsInsideArray ==
    (lastOp = "autoCorrelate" /\ ~tooQuiet(dataArray)) =>
        LET c == correlation(Trimmed(dataArray))
            d == SkipLag(dataArray)
        IN  /\ d = FirstNonDescending(c)
            /\ d >= 0
            /\ c = << >> => d = 0
            /\ c # << >> => d <= Len(c) - 1

\* autoCorrelate ran on a buffer whose autocorrelation decreases over all of
\* its three or more lags: the skip stopped at the last lag
C29_Witness ==
    /\ lastOp = "autoCorrelate"
    /\ ~tooQuiet(dataArray)
    /\ Len(Trimmed(dataArray)) >= 3
    /\ SkipLag(dataArray) = Len(Trimmed(dataArray)) - 1
    /\ LET c == correlation(Trimmed(dataArray))
       IN  \A j \in 1..(Len(c) - 1) : JsGt(c[j], c[j + 1])

(***************************************************************************)
(* Further claims about the pitch-detector component, checked under        *)
(* SpecComponent.                                                          *)
(***************************************************************************)
\* C26: however start() and toggle() calls interleave, at most one acquired
\* microphone stream is live and at most one created audio context is open,
\* and each of them is the one the component references.
C26_AtMostOneStreamAndContext ==
    /\ liveStreams <= 1
    /\ openContexts <= 1
    /\ liveStreams = 1 => stream # "null"
    /\ openContexts = 1 => audioContext # "null"

\* C27: when a start() has failed (permission refused, or the audio context
\* constructor throwing after the stream was obtained), the component is
\* inactive, errorMessage is set, an 'error' event was dispatched, and no
\* live stream, audio context or gain node is held.
C27_FailedStartHoldsNothing ==
    (lastCall = "startResume" /\ errorMessage = "message") =>
        /\ ~isActive
        /\ lastEvent = "error"
        /\ stream = "null"
        /\ liveStreams = 0
        /\ audioContext = "null"
        /\ gainNode = "null"

\* C25: two consecutive detectPitch calls of one loop are at least 100 ms
\* apart, however often its animation-frame callback fires, and every call
\* is followed by exactly one 'pitch-update' event.
C25_DetectionAtMostEvery100ms ==
    /\ \A loop \in 1..loops :
          Len(callTimes[loop]) = 2 =>
              callTimes[loop][2] - callTimes[loop][1] >= 100
    /\ updates = detections

\* a running loop made its second detectPitch call exactly 100 ms after its
\* first one, and two events were dispatched
C25_Witness ==
    /\ lastCall = "detect"
    /\ \E loop \in 1..loops :
          /\ Len(callTimes[loop]) = 2
          /\ callTimes[loop][2] - callTimes[loop][1] = 100
          /\ callTimes[loop][2] = now
    /\ detections = 2
    /\ updates = 2

(***************************************************************************)
(* Claims about getNoteFromFrequency, checked under SpecNote.              *)
(***************************************************************************)
\* the names of the twelve pitch classes, from C
PitchClasses ==
    << "C", "C#", "D", "D#", "E", "F", "F#", "G", "G#", "A", "A#", "B" >>

\* the note k semitones from A4: its number is 69 + k, twelve numbers make
\* an octave and number 12 is C0
NoteAt(k) ==
    Note(PitchClasses[((69 + k) % 12) + 1], ((69 + k) \div 12) - 1)

\* C21: for the frequency of the note k semitones from A4 (440 Hz),
\* getNoteFromFrequency returns the name and octave of that note: 440 Hz
\* gives A4, 261.63 Hz gives C4 and 880 Hz gives A5.
C21_NoteOfSemitone ==
    \A k \in LowestSemitone..HighestSemitone :
        ( /\ frequencyArg = Rat(SemitoneCentiHertz[k - LowestSemitone + 1], 100)
          /\ noteText # Note("", 0) )
        => noteText = NoteAt(k)

(***************************************************************************)
(* Claims about the note player, checked under SpecPlayer.                 *)
(***************************************************************************)
\* C22: after playNote(n), playingNote stays n until 3 seconds have passed,
\* unless stopNote() or a later playNote was called: no timer of an
\* earlier play clears it early.
C22_PlayingForThreeSeconds ==
    (started.active /\ playerNow - started.at < AutoClearMillis)
        => playingNote = started.note

(***************************************************************************)
(* Claims about detectHeadphones, checked under SpecHeadphones.            *)
(***************************************************************************)
\* C23: whenever detectHeadphones has returned, on any path, every stream
\* it acquired itself has had its tracks stopped, and no caller's stream
\* was stopped.
C23_TemporaryStreamStopped ==
    hpPosition = "returned" => temporaryLive = 0 /\ ~callerStopped

(***************************************************************************)
(* Claims about the estimator on sine waves, checked under SpecSine.       *)
(***************************************************************************)
\* | x - f | <= f / 100
WithinOnePercent(x, f) ==
    /\ x.k = "num"
    /\ ~JsLt(f, JsMul(Num(100), JsAbs(JsSub(x, f))))

TrimmedCall ==
    /\ lastOp = "autoCorrelate"
    /\ Len(dataArray) >= 2
    /\ ~tooQuiet(dataArray)

C32_MonitoringOnlyWhileActive == isMonitoring => isActive

\* monitoring was switched on on a started detector after another start()
\* had failed
C32_Witness ==
    /\ lastCall = "toggleMonitoring"
    /\ isMonitoring
    /\ isActive
    /\ errorMessage = "message"
    /\ gainNode = "object"

(***************************************************************************)
(* Claims about the returned value, checked under Spec.                    *)
(***************************************************************************)
\* the positions in accepted of the last historySize raw estimates
LastEstimates == (Len(accepted) - historySize + 1)..Len(accepted)

\* C31: every frequency detectPitch returns lies in 60..1000 Hz, is the
\* mean of exactly historySize entries (the history length equals the
\* divisor historySize) and differs from each of the last historySize raw
\* estimates by less than pitchTolerance.
C31_ReturnedValueIsNearMeanInRange ==
    ReturnedFrequency =>
        /\ InRange(result)
        /\ Len(pitchHistory) = historySize
        /\ Len(accepted) >= historySize
        /\ result = MeanOf(LastN(accepted, historySize))
        /\ \A i \in LastEstimates :
              JsLt(JsAbs(JsSub(accepted[i], result)), Num(pitchTolerance))

\* with historySize 2 and pitchTolerance 5, the estimates 260, 220, 221
\* returned 220.5, the mean of the last two
C31_Witness ==
    /\ ReturnedFrequency
    /\ historySize = 2
    /\ pitchTolerance = 5
    /\ accepted = << Num(260), Num(220), Num(221) >>
    /\ result = Rat(441, 2)

====
